---- MODULE Spec2Model ----
(***************************************************************************)
(* Model of generate-spot-drill-gcode.py: the PointsList class (the list   *)
(* of points, point_count, row_selected), the check buttons and their      *)
(* BooleanVars, and the button callbacks that drive the class.             *)
(*                                                                         *)
(* A point is the Python list [POINTNUMBER, XWIDGET, YWIDGET, CHECKBUTTON,  *)
(* SELECTED].  The entry widgets are modelled by the text they hold (they  *)
(* are only ever swapped between points, never shared).  A check button is *)
(* modelled by the identity of the BooleanVar it was created with (var)    *)
(* and the index its command lambda captured (line); SELECTED is the       *)
(* identity of the BooleanVar created together with the point.             *)
(*                                                                         *)
(* Python list subscripts keep their meaning: a subscript k of a list of   *)
(* length n is legal for -n <= k < n, negative k counts from the end, and  *)
(* any other k raises IndexError, which ends the method where it stands.   *)
(*                                                                         *)
(* The File menu is modelled with the rest of the project (the unit and    *)
(* mode menus, the depth and plunge entries), the config dictionary and    *)
(* the files on disk.  A path is the sequence of its pieces, "/" being a   *)
(* piece of its own; an XML element is the sequence holding its text, or   *)
(* the empty sequence when the document has no such element.  The file     *)
(* config next to the program is the sequence of its four lines; a new     *)
(* session (Restart) starts from the files the last one left.  Numbers in  *)
(* the entries stand as texts; evaluate gives their value in tenths.       *)
(***************************************************************************)
EXTENDS Integers, Sequences, FiniteSets, TLC

\* Largest number of points the model lets the list grow to.
MaxPoints == 3

\* Largest number of rows Add Point gives a project that is also saved to
\* a file and opened from one
MaxAdded == 1

\* Largest number of rows of a list that delete_point is called on with
\* any argument together with every other method
MaxRows == 2

\* src line 284
NONESELECTED == -1

\* Texts given to append_point(x, y) by a direct caller.
PointInputs == {<<"", "">>, <<"1", "2">>}

\* Arguments a direct caller hands to delete_point: every legal index, and
\* values on both sides that are no index of the list.
DeleteArgs == (-1) .. MaxPoints

\* Names for the BooleanVar objects.  A point refers to at most two of them
\* (its check button's and its own), so a name no point refers to exists
\* whenever a point can still be appended.
VarIds == 0 .. (2 * MaxPoints - 1)

\* points, point_count, row_selected: the fields of plist.
\* checkvar: the value of every BooleanVar.  gridded: the check buttons now
\* on the grid (the ones the user can click), named by their BooleanVar.
\* last: the call made last (history, read by the properties only).
VARIABLES points, point_count, row_selected, checkvar, gridded, last

\* unit, mode: the values of inch_mm_select_var and abs_rel_select_var.
\* depth, plunge: the texts of depth_entry and plunge_entry.
\* config: the config dictionary.  disk: what every file holds.
\* config_file: the lines of the file config next to the program.
\* io: what the last command asked, wrote and failed with; located: whether
\* a file was opened or saved since start-up; saved_as: the path of the last
\* completed Save As when no Open or Save As was started since (all three
\* history, read by the properties only).
VARIABLES unit, mode, depth, plunge, config, disk, io, located, saved_as,
          config_file

listvars == <<points, point_count, row_selected, checkvar, gridded>>

filevars == <<unit, mode, depth, plunge, config, disk, config_file>>

vars == <<points, point_count, row_selected, checkvar, gridded, last,
          unit, mode, depth, plunge, config, disk, io, located, saved_as,
          config_file>>

----------------------------------------------------------------------------
(* Python list subscripting *)

PyValid(n, k) == k >= -n /\ k < n

PyPos(n, k) == IF k >= 0 THEN k + 1 ELSE n + k + 1

----------------------------------------------------------------------------
(* The PointsList object and the tk state it touches, as one value.        *)
(* Every operation takes this value as self and yields the value after it; *)
(* err is set when the operation left by an IndexError.  An operation      *)
(* first fixes the value of self (s \in {self}) and then works on s.       *)

Self ==
    [points |-> points, point_count |-> point_count,
     row_selected |-> row_selected, checkvar |-> checkvar,
     gridded |-> gridded, err |-> FALSE]

\* tk.Checkbutton.select(): sets the button's variable
cb_select(s, cb) == [s EXCEPT !.checkvar[cb.var] = TRUE]

\* tk.Checkbutton.deselect(): clears the button's variable
cb_deselect(s, cb) == [s EXCEPT !.checkvar[cb.var] = FALSE]

\* The BooleanVar names some point of s refers to
Referenced(s) ==
    UNION {{s.points[i].cb.var, s.points[i].sel} : i \in 1 .. Len(s.points)}

\* tk.BooleanVar(): a new object, distinct from every one still referred to
FreshVar(s) ==
    CHOOSE v \in VarIds \ Referenced(s) :
        \A w \in VarIds \ Referenced(s) : v <= w

\* The BooleanVar names of s in the order the points first refer to them
VarOrder(s) ==
    [k \in 1 .. (2 * Len(s.points)) |->
        IF k % 2 = 1 THEN s.points[(k + 1) \div 2].cb.var
                     ELSE s.points[k \div 2].sel]

\* Object identity carries no information beyond equality.  Objects no point
\* refers to any more cannot be read or clicked again and are forgotten; the
\* others are given the names 0, 1, ... in the order the points refer to
\* them.  Which objects are the same, and every variable's value, is kept.
Collect(self) ==
    CHOOSE r \in
      { CHOOSE q \in
          { [s EXCEPT
               !.points = [i \in 1 .. Len(s.points) |->
                              [s.points[i] EXCEPT !.cb.var = name[@],
                                                  !.sel = name[@]]],
               !.checkvar = [n \in VarIds |->
                                IF \E v \in DOMAIN name : name[v] = n
                                THEN s.checkvar[CHOOSE v \in DOMAIN name : name[v] = n]
                                ELSE FALSE],
               !.gridded = {name[v] : v \in s.gridded \cap DOMAIN name}]
            : name \in
                { [v \in {ord[k] : k \in DOMAIN ord} |->
                      Cardinality({ord[j] : j \in
                          1 .. ((CHOOSE k \in DOMAIN ord :
                                    ord[k] = v /\ \A j \in 1 .. (k - 1) : ord[j] # v) - 1)})]
                  : ord \in {VarOrder(s)} } } : TRUE
        : s \in {self} } : TRUE

clear_points_from_grid(self) ==
    CHOOSE r \in
      { [s EXCEPT !.gridded = @ \ {s.points[i].cb.var : i \in 1 .. Len(s.points)}]
        : s \in {self} } : TRUE

place_points_on_grid(self) ==
    CHOOSE r \in
      { [s EXCEPT !.gridded = @ \cup {s.points[i].cb.var : i \in 1 .. Len(s.points)},
                  !.row_selected = NONESELECTED]
        : s \in {self} } : TRUE

\* for pt in self.points: the check button of the point at list position
\* row is selected, every other one deselected, in list order.
\* self.points.index(pt) is pt's own position: two points are never equal,
\* since no entry widget is held by two points.
RECURSIVE select_loop(_, _, _)
select_loop(self, row, i) ==
    CHOOSE r \in
      { IF i > Len(s.points) THEN s
        ELSE select_loop(IF i - 1 = row THEN cb_select(s, s.points[i].cb)
                                        ELSE cb_deselect(s, s.points[i].cb),
                         row, i + 1)
        : s \in {self} } : TRUE

select_row(self, row) ==
    [select_loop([self EXCEPT !.row_selected = NONESELECTED], row, 1)
        EXCEPT !.row_selected = row]

deselect_row(self, row) == [self EXCEPT !.row_selected = NONESELECTED]

\* clear as it would be if it left point_count alone
ClearKeepsCount(self) ==
    [clear_points_from_grid(self) EXCEPT !.points = <<>>]

clear(self) ==
    [clear_points_from_grid(self) EXCEPT !.points = <<>>, !.point_count = 0]

\* append_point as it would be with the rows numbered from 1
NewPointNumberedFromOne(self, x, y) ==
    CHOOSE r \in
      { [s EXCEPT !.point_count = @ + 1,
                  !.checkvar[v] = FALSE,
                  !.points = Append(@, [num |-> s.point_count + 1, x |-> x, y |-> y,
                                        cb |-> [var |-> v, line |-> s.point_count],
                                        sel |-> v])]
        : <<s, v>> \in {<<t, FreshVar(t)>> : t \in {self}} } : TRUE

\* self.point_count += 1 ... self.points.append([index, xentry, yentry,
\* check_button, checkvar])
NewPoint(self, x, y) ==
    CHOOSE r \in
      { [s EXCEPT !.point_count = @ + 1,
                  !.checkvar[v] = FALSE,
                  !.points = Append(@, [num |-> s.point_count, x |-> x, y |-> y,
                                        cb |-> [var |-> v, line |-> s.point_count],
                                        sel |-> v])]
        : <<s, v>> \in {<<t, FreshVar(t)>> : t \in {self}} } : TRUE

append_point(self, x, y) ==
    CHOOSE r \in
      { IF ~PyValid(Len(s.points), s.point_count - 1)
        THEN [s EXCEPT !.err = TRUE]
        ELSE select_row(
               [s EXCEPT !.gridded =
                   @ \cup {s.points[PyPos(Len(s.points), s.point_count - 1)].cb.var}],
               s.point_count - 1)
        : s \in {NewPoint(self, x, y)} } : TRUE

\* del self.points[k], for the list position p (from 1) that k denotes
DelAt(seq, p) ==
    [j \in 1 .. (Len(seq) - 1) |-> IF j < p THEN seq[j] ELSE seq[j + 1]]

\* The else branch as it would be if the point kept its check button and
\* only took the number idx - 1
ShiftNumberOnly(self, i, idx) ==
    CHOOSE r \in
      { IF ~PyValid(Len(s.points), idx - 1) \/ ~PyValid(Len(s.points), idx)
        THEN [s EXCEPT !.err = TRUE]
        ELSE CHOOSE q \in
               { cb_deselect(t, t.points[i].cb)
                 : t \in { [s EXCEPT
                              !.points[PyPos(Len(s.points), idx)].num = idx - 1] } }
               : TRUE
        : s \in {self} } : TRUE

\* The else branch of the loop of delete_point, for the point at list
\* position i (from 1) whose number is idx: the point subscripted idx takes
\* the check button of the point subscripted idx - 1 and the number idx - 1,
\* then the check button now held by the point at position i is deselected.
ShiftCheckbutton(self, i, idx) ==
    CHOOSE r \in
      { IF ~PyValid(Len(s.points), idx - 1) \/ ~PyValid(Len(s.points), idx)
        THEN [s EXCEPT !.err = TRUE]
        ELSE CHOOSE q \in
               { cb_deselect(t, t.points[i].cb)
                 : t \in { [s EXCEPT
                              !.points[PyPos(Len(s.points), idx)].cb =
                                  s.points[PyPos(Len(s.points), idx - 1)].cb,
                              !.points[PyPos(Len(s.points), idx)].num = idx - 1] } }
               : TRUE
        : s \in {self} } : TRUE

\* for pt in reversed(self.points): i is the list position (from 1) of pt;
\* the loop ends at the break, at an IndexError, or with the list.
RECURSIVE delete_loop(_, _, _)
delete_loop(self, ptnum, i) ==
    CHOOSE r \in
      { IF i = 0 \/ s.err THEN s
        ELSE IF ptnum = s.points[i].num
        THEN IF PyValid(Len(s.points), ptnum)
             THEN [s EXCEPT !.points = DelAt(@, PyPos(Len(s.points), ptnum)),
                            !.point_count = @ - 1]
             ELSE [s EXCEPT !.err = TRUE]
        ELSE delete_loop(ShiftCheckbutton(s, i, s.points[i].num), ptnum, i - 1)
        : s \in {self} } : TRUE

\* delete_point as it would be if it tested its argument, not row_selected
DeletePointTestsArgument(self, ptnum) ==
    CHOOSE r \in
      { IF ptnum = NONESELECTED THEN s
        ELSE CHOOSE q \in
               { IF t.err THEN t ELSE place_points_on_grid(t)
                 : t \in {delete_loop(clear_points_from_grid(s), ptnum,
                                      Len(s.points))} } : TRUE
        : s \in {self} } : TRUE

delete_point(self, ptnum) ==
    CHOOSE r \in
      { IF s.row_selected = NONESELECTED THEN s
        ELSE CHOOSE q \in
               { IF t.err THEN t ELSE place_points_on_grid(t)
                 : t \in {delete_loop(clear_points_from_grid(s), ptnum,
                                      Len(s.points))} } : TRUE
        : s \in {self} } : TRUE

\* (POINTNUMBER, x text, y text, SELECTED.get())
read_point(s, ptnum) ==
    <<s.points[PyPos(Len(s.points), ptnum)].num,
      s.points[PyPos(Len(s.points), ptnum)].x,
      s.points[PyPos(Len(s.points), ptnum)].y,
      s.checkvar[s.points[PyPos(Len(s.points), ptnum)].sel]>>

\* The exchange as it would be with the y widgets left where they are
SwapXOnly(self, pa, pb) ==
    CHOOSE r \in
      { [s EXCEPT !.points =
            [j \in 1 .. Len(s.points) |->
                IF j = pb THEN [s.points[pb] EXCEPT !.x = s.points[pa].x]
                ELSE IF j = pa THEN [s.points[pa] EXCEPT !.x = s.points[pb].x]
                ELSE s.points[j]]]
        : s \in {self} } : TRUE

\* xtemp, ytemp = the entry widgets of the point at position pa; that point
\* takes those of the point at position pb, which takes xtemp and ytemp
SwapXY(self, pa, pb) ==
    CHOOSE r \in
      { [s EXCEPT !.points =
            [j \in 1 .. Len(s.points) |->
                IF j = pb THEN [s.points[pb] EXCEPT !.x = s.points[pa].x,
                                                    !.y = s.points[pa].y]
                ELSE IF j = pa THEN [s.points[pa] EXCEPT !.x = s.points[pb].x,
                                                         !.y = s.points[pb].y]
                ELSE s.points[j]]]
        : s \in {self} } : TRUE

\* move_point_forward as it would be if it selected the row it was given
MoveForwardSelectsOldRow(self, ptnum) ==
    CHOOSE r \in
      { IF ptnum = s.point_count - 1 THEN s
        ELSE IF ~PyValid(Len(s.points), ptnum) \/ ~PyValid(Len(s.points), ptnum + 1)
        THEN [clear_points_from_grid(s) EXCEPT !.err = TRUE]
        ELSE select_row(
               place_points_on_grid(
                 SwapXY(clear_points_from_grid(s),
                        PyPos(Len(s.points), ptnum),
                        PyPos(Len(s.points), ptnum + 1))),
               ptnum)
        : s \in {self} } : TRUE

move_point_forward(self, ptnum) ==
    CHOOSE r \in
      { IF ptnum = s.point_count - 1 THEN s
        ELSE IF ~PyValid(Len(s.points), ptnum) \/ ~PyValid(Len(s.points), ptnum + 1)
        THEN [clear_points_from_grid(s) EXCEPT !.err = TRUE]
        ELSE select_row(
               place_points_on_grid(
                 SwapXY(clear_points_from_grid(s),
                        PyPos(Len(s.points), ptnum),
                        PyPos(Len(s.points), ptnum + 1))),
               ptnum + 1)
        : s \in {self} } : TRUE

\* move_point_backward as it would be if it took row 1 for the first row
MoveBackwardFirstRowIsOne(self, ptnum) ==
    CHOOSE r \in
      { IF ptnum = 1 THEN s
        ELSE IF ~PyValid(Len(s.points), ptnum) \/ ~PyValid(Len(s.points), ptnum - 1)
        THEN [clear_points_from_grid(s) EXCEPT !.err = TRUE]
        ELSE select_row(
               place_points_on_grid(
                 SwapXY(clear_points_from_grid(s),
                        PyPos(Len(s.points), ptnum),
                        PyPos(Len(s.points), ptnum - 1))),
               ptnum - 1)
        : s \in {self} } : TRUE

move_point_backward(self, ptnum) ==
    CHOOSE r \in
      { IF ptnum = 0 THEN s
        ELSE IF ~PyValid(Len(s.points), ptnum) \/ ~PyValid(Len(s.points), ptnum - 1)
        THEN [clear_points_from_grid(s) EXCEPT !.err = TRUE]
        ELSE select_row(
               place_points_on_grid(
                 SwapXY(clear_points_from_grid(s),
                        PyPos(Len(s.points), ptnum),
                        PyPos(Len(s.points), ptnum - 1))),
               ptnum - 1)
        : s \in {self} } : TRUE

\* check_select_change(line, val): val is the BooleanVar of the button
check_select_change(self, line, val) ==
    CHOOSE r \in
      { IF s.checkvar[val] THEN select_row(s, line) ELSE deselect_row(s, line)
        : s \in {self} } : TRUE

\* A click on a check button toggles its variable and runs its command,
\* the lambda holding the index and the BooleanVar the button was made with.
checkbutton_invoke(self, cb) ==
    check_select_change([self EXCEPT !.checkvar[cb.var] = ~@], cb.line, cb.var)

addpoint_pressed(self) == append_point(self, "", "")

deletepoint_pressed(self) ==
    CHOOSE r \in {delete_point(s, s.row_selected) : s \in {self}} : TRUE

up_button_pressed(self) ==
    CHOOSE r \in {move_point_backward(s, s.row_selected) : s \in {self}} : TRUE

down_button_pressed(self) ==
    CHOOSE r \in {move_point_forward(s, s.row_selected) : s \in {self}} : TRUE

----------------------------------------------------------------------------
(* Paths and files *)

\* The texts the option menus offer
Units == {"Unit: Inches", "Unit: Millimeters"}

Modes == {"Mode: Absolute", "Mode: Relative"}

\* Texts the user types into the depth and plunge entries: nothing, and a
\* text that names no number
EntryTexts == {"", "abc"}

\* Texts the user types into the x and y entries of a point: nothing, and
\* a number
PointTexts == {"", "1"}

\* os.path.expanduser("~")
user_home_path == <<"/", "home">>

DEFAULTDATAFILENAME == <<"generate_spot_drill_data_file">>

DEFAULTGCODEFILENAME == <<"gcode.nc">>

\* The paths a file dialog can hand back.  The user may write WorkPath and
\* DefaultPath, the file config names at first; the others exist and are
\* read-only, except AbsentPath, which lies in a directory that does not
\* exist, and the two answers of a cancelled dialog: NoPath, the empty
\* string, and EmptyTuple, the empty tuple that tkinter makes of the same
\* empty Tcl result when Tcl holds it as a list.
WorkPath == user_home_path \o <<"/", "work.xml">>

DefaultPath == user_home_path \o <<"/">> \o DEFAULTDATAFILENAME

ProjectPath == <<"/", "ro", "/", "project.xml">>

GarbagePath == <<"/", "ro", "/", "garbage.xml">>

NoModePath == <<"/", "ro", "/", "nomode.xml">>

NoPlungePath == <<"/", "ro", "/", "noplunge.xml">>

NoPointsPath == <<"/", "ro", "/", "nopoints.xml">>

NoYPath == <<"/", "ro", "/", "noy.xml">>

AbsentPath == <<"/", "gone", "/", "absent.xml">>

\* A file of the user's own that is there and is no XML
JunkPath == user_home_path \o <<"/", "junk.xml">>

NoPath == <<>>

EmptyTuple == <<"()">>

\* The path new_pressed writes to
TestWritePath ==
    <<"C:", "/", "Users", "/", "ed", "/", "Documents", "/", "CNC", "/",
      "testwrite_file_xml">>

\* What asksaveasfilename may return
SaveAnswers == {WorkPath, GarbagePath, NoPath, EmptyTuple}

\* What askopenfilename may return
OpenAnswers == {WorkPath, ProjectPath, GarbagePath, NoModePath, NoPlungePath,
                NoPointsPath, NoYPath, AbsentPath, NoPath, EmptyTuple}

\* The position of the last "/" of p, 0 when it has none: p.rfind(sep) + 1
LastSlash(p) ==
    IF \E i \in 1 .. Len(p) : p[i] = "/"
    THEN CHOOSE i \in 1 .. Len(p) : p[i] = "/" /\ \A j \in (i + 1) .. Len(p) : p[j] # "/"
    ELSE 0

\* head.rstrip(sep)
RECURSIVE rstrip(_)
rstrip(h) ==
    IF h # <<>> /\ h[Len(h)] = "/" THEN rstrip(SubSeq(h, 1, Len(h) - 1)) ELSE h

\* os.path.split(p): << head, tail >>.  The head keeps its slashes only
\* when it is made of nothing else.
os_path_split(p) ==
    CHOOSE r \in
      { << IF \A j \in 1 .. i : p[j] = "/" THEN SubSeq(p, 1, i)
                                          ELSE rstrip(SubSeq(p, 1, i)),
           SubSeq(p, i + 1, Len(p)) >>
        : i \in {LastSlash(p)} } : TRUE

IsName(piece) == piece # "/"

\* The file a path names to the operating system: the names on the way
\* from the root, however many slashes stand between them
FileOf(p) == SelectSeq(p, IsName)

\* The files the user may create or overwrite
Writable == {FileOf(WorkPath), FileOf(DefaultPath), FileOf(JunkPath)}

\* The files that are there and may only be read
ReadOnly == {FileOf(ProjectPath), FileOf(GarbagePath), FileOf(NoModePath),
             FileOf(NoPlungePath), FileOf(NoPointsPath), FileOf(NoYPath)}

\* An XML element holding text, and the text of an element
El(text) == <<text>>

NoEl == <<>>

NoDoc ==
    [unitsel |-> NoEl, modesel |-> NoEl, depthexpr |-> NoEl,
     plungeexpr |-> NoEl, points |-> NoEl]

\* A project file written by an earlier session
ProjectDoc ==
    [unitsel |-> El("Unit: Millimeters"), modesel |-> El("Mode: Relative"),
     depthexpr |-> El("1"), plungeexpr |-> El("2"),
     points |-> El(<< [xexpr |-> El("1"), yexpr |-> El("2")],
                      [xexpr |-> El("2"), yexpr |-> El("1")] >>)]

\* What open(path, "w") does: "" when the file can be written
open_for_writing(p) ==
    IF p = EmptyTuple THEN "TypeError"
    ELSE IF p = NoPath THEN "FileNotFoundError"
    ELSE IF FileOf(p) \in Writable THEN ""
    ELSE IF FileOf(p) \in ReadOnly THEN "PermissionError"
    ELSE IF FileOf(p) = <<>> THEN "IsADirectoryError"
    ELSE "FileNotFoundError"

\* What Et.parse(path) does: "" when it yields a tree
Et_parse(d, p) ==
    IF p = NoPath \/ FileOf(p) \notin DOMAIN d THEN "FileNotFoundError"
    ELSE IF d[FileOf(p)].kind = "absent" THEN "FileNotFoundError"
    ELSE IF d[FileOf(p)].kind = "garbage" THEN "ParseError"
    ELSE ""

----------------------------------------------------------------------------
(* The File menu.  Every command takes the program's state as one value   *)
(* (plist is the PointsList object as above) and yields the state after.  *)

\* gcode: the drill cycles the command emitted as G-code
NoIo ==
    [asked |-> {}, answer |-> NoPath, wrote |-> {}, error |-> "", gcode |-> <<>>]

App ==
    [plist |-> Self, unit |-> unit, mode |-> mode, depth |-> depth,
     plunge |-> plunge, config |-> config, disk |-> disk, io |-> NoIo,
     config_file |-> config_file]

\* The command ends here with exception e (caught or not)
Raise(a, e) == [a EXCEPT !.io.error = e]

\* update_config_file(): the file config is rewritten from the config
\* dictionary; its fourth line is default_gcode_path once more (line 911)
update_config_file(app) ==
    [app EXCEPT !.config_file =
        << app.config.default_data_path, app.config.default_data_file,
           app.config.default_gcode_path, app.config.default_gcode_path >>]

\* The text as it would be written if '' were written as it is
BlankIsText(text) == text

\* '' is written as ' '
Blank(text) == IF text = "" THEN " " ELSE text

\* The element tree save_data builds
XmlTree(a) ==
    [unitsel |-> El(a.unit), modesel |-> El(a.mode),
     depthexpr |-> El(Blank(a.depth)), plungeexpr |-> El(Blank(a.plunge)),
     points |-> El([i \in 1 .. a.plist.point_count |->
                      [xexpr |-> El(Blank(read_point(a.plist, i - 1)[2])),
                       yexpr |-> El(Blank(read_point(a.plist, i - 1)[3]))]])]

\* save_data as it would be if it updated the config dictionary before it
\* tried to write
SaveDataRemembersFirst(app, file_path) ==
    CHOOSE r \in
      { IF \E i \in 0 .. (a.plist.point_count - 1) : ~PyValid(Len(a.plist.points), i)
        THEN Raise(a, "IndexError")
        ELSE IF open_for_writing(file_path) = ""
        THEN update_config_file(
               [a EXCEPT !.disk[FileOf(file_path)] = [kind |-> "xml", doc |-> XmlTree(a)],
                         !.io.wrote = {FileOf(file_path)},
                         !.config.default_data_path = os_path_split(file_path)[1],
                         !.config.default_data_file = os_path_split(file_path)[2]])
        ELSE update_config_file(
               [Raise(a, open_for_writing(file_path)) EXCEPT
                         !.config.default_data_path = os_path_split(file_path)[1],
                         !.config.default_data_file = os_path_split(file_path)[2]])
        : a \in {app} } : TRUE

\* save_data(file_path): build the tree (read_point(i) for i below
\* point_count), write it, and only then update config
save_data(app, file_path) ==
    CHOOSE r \in
      { IF \E i \in 0 .. (a.plist.point_count - 1) : ~PyValid(Len(a.plist.points), i)
        THEN Raise(a, "IndexError")
        ELSE IF open_for_writing(file_path) = ""
        THEN update_config_file(
               [a EXCEPT !.disk[FileOf(file_path)] = [kind |-> "xml", doc |-> XmlTree(a)],
                         !.io.wrote = {FileOf(file_path)},
                         !.config.default_data_path = os_path_split(file_path)[1],
                         !.config.default_data_file = os_path_split(file_path)[2]])
        ELSE Raise(a, open_for_writing(file_path))
        : a \in {app} } : TRUE

\* save_pressed as it would be if it took the G-code file name
SavePressedGcodeFile(app) ==
    CHOOSE r \in
      { save_data(a, a.config.default_data_path \o <<"/">>
                        \o a.config.default_gcode_file)
        : a \in {app} } : TRUE

save_pressed(app) ==
    CHOOSE r \in
      { save_data(a, a.config.default_data_path \o <<"/">>
                        \o a.config.default_data_file)
        : a \in {app} } : TRUE

\* save_file is what asksaveasfilename returned
save_as_pressed(app, save_file) ==
    save_data([app EXCEPT !.io.asked = {"asksaveasfilename"},
                          !.io.answer = save_file],
              save_file)

\* The tree new_pressed builds
TestDoc ==
    [unitsel |-> El("Unit: Inches"), modesel |-> El("Mode: Absolute"),
     depthexpr |-> El(".1 + 1"), plungeexpr |-> El("100"),
     points |-> El(<< [xexpr |-> El("3.14"), yexpr |-> El(".001592")],
                      [xexpr |-> El("456"), yexpr |-> El("123")],
                      [xexpr |-> El("3.0"), yexpr |-> El(".141592")] >>)]

\* new_pressed(): a fixed tree is written to a fixed path; the list, the
\* menus and the entries are not touched
new_pressed(app) ==
    CHOOSE r \in
      { IF open_for_writing(TestWritePath) = ""
        THEN [a EXCEPT !.disk[FileOf(TestWritePath)] = [kind |-> "xml", doc |-> TestDoc],
                       !.io.wrote = {FileOf(TestWritePath)}]
        ELSE Raise(a, open_for_writing(TestWritePath))
        : a \in {app} } : TRUE

\* gen_gcode_pressed(): read_point(ptindex) for every index of the list,
\* each printed to the console; no G-code is made
gen_gcode_pressed(app) ==
    CHOOSE r \in
      { IF \E ptindex \in 0 .. (Len(a.plist.points) - 1) :
               ~PyValid(Len(a.plist.points), ptindex)
        THEN Raise(a, "IndexError")
        ELSE a
        : a \in {app} } : TRUE

\* Lines 606-617: the menus and the two entries, one after the other; an
\* element the document lacks ends the command with AttributeError.  An
\* entry is emptied before the text of its element is asked for.
load_settings(app, doc) ==
    CHOOSE r \in
      { IF doc.unitsel = NoEl THEN Raise(a, "AttributeError")
        ELSE IF doc.modesel = NoEl
        THEN Raise([a EXCEPT !.unit = doc.unitsel[1]], "AttributeError")
        ELSE IF doc.depthexpr = NoEl
        THEN Raise([a EXCEPT !.unit = doc.unitsel[1], !.mode = doc.modesel[1],
                             !.depth = ""], "AttributeError")
        ELSE IF doc.plungeexpr = NoEl
        THEN Raise([a EXCEPT !.unit = doc.unitsel[1], !.mode = doc.modesel[1],
                             !.depth = doc.depthexpr[1], !.plunge = ""],
                   "AttributeError")
        ELSE [a EXCEPT !.unit = doc.unitsel[1], !.mode = doc.modesel[1],
                       !.depth = doc.depthexpr[1], !.plunge = doc.plungeexpr[1]]
        : a \in {app} } : TRUE

\* Lines 623-633: for point in points.findall('point'), from the i-th on
RECURSIVE load_points(_, _, _)
load_points(app, pts, i) ==
    CHOOSE r \in
      { IF i > Len(pts) \/ a.io.error # "" THEN a
        ELSE IF pts[i].xexpr = NoEl \/ pts[i].yexpr = NoEl
        THEN Raise(a, "AttributeError")
        ELSE load_points(
               CHOOSE b \in
                 { IF pl.err THEN Raise([a EXCEPT !.plist = pl], "IndexError")
                             ELSE [a EXCEPT !.plist = pl]
                   : pl \in {append_point(a.plist, pts[i].xexpr[1], pts[i].yexpr[1])} }
                 : TRUE,
               pts, i + 1)
        : a \in {app} } : TRUE

\* load_document as it would be without plist.clear()
LoadDocumentKeepsPoints(app, doc) ==
    CHOOSE r \in
      { IF a.io.error # "" THEN a
        ELSE IF doc.points = NoEl
        THEN Raise(a, "AttributeError")
        ELSE load_points(a, doc.points[1], 1)
        : a \in {load_settings(app, doc)} } : TRUE

\* Lines 601-633: what open_pressed does with the parsed tree
load_document(app, doc) ==
    CHOOSE r \in
      { IF a.io.error # "" THEN a
        ELSE IF doc.points = NoEl
        THEN Raise([a EXCEPT !.plist = clear(a.plist)], "AttributeError")
        ELSE load_points([a EXCEPT !.plist = clear(a.plist)], doc.points[1], 1)
        : a \in {load_settings(app, doc)} } : TRUE

\* yes is the answer to "Current data will be deleted", open_file what
\* askopenfilename returned.  'Spot Drilling Tool: ' + open_file raises
\* TypeError for the empty tuple; config is updated before the file is read.
open_pressed(app, yes, open_file) ==
    IF ~yes THEN [app EXCEPT !.io.asked = {"askyesno"}]
    ELSE IF open_file = EmptyTuple
    THEN Raise([app EXCEPT !.io.asked = {"askyesno", "askopenfilename"},
                           !.io.answer = open_file], "TypeError")
    ELSE CHOOSE r \in
      { IF Et_parse(a.disk, open_file) # ""
        THEN Raise(a, Et_parse(a.disk, open_file))
        ELSE load_document(a, a.disk[FileOf(open_file)].doc)
        : a \in { update_config_file(
                   [app EXCEPT
                     !.io.asked = {"askyesno", "askopenfilename"},
                     !.io.answer = open_file,
                     !.config.default_data_path = os_path_split(open_file)[1],
                     !.config.default_data_file = os_path_split(open_file)[2]]) } }
      : TRUE

----------------------------------------------------------------------------
(* The state machine *)

\* The x and y texts of the points of s, in list order
Contents(s) == [i \in 1 .. Len(s.points) |-> <<s.points[i].x, s.points[i].y>>]

\* init_config() when there is no config file yet
init_config ==
    [default_data_path |-> user_home_path,
     default_data_file |-> DEFAULTDATAFILENAME,
     default_gcode_path |-> user_home_path,
     default_gcode_file |-> DEFAULTGCODEFILENAME]

\* The lines init_config writes to the file config when there is none
config_file_lines ==
    << user_home_path, DEFAULTDATAFILENAME, user_home_path, DEFAULTGCODEFILENAME >>

\* init_config() when the file config is there: the dictionary is read from
\* its four lines
read_config(lines) ==
    [default_data_path |-> lines[1],
     default_data_file |-> lines[2],
     default_gcode_path |-> lines[3],
     default_gcode_file |-> lines[4]]

\* The files at start-up: none the user has written but one that is no XML,
\* a project file, a file that is no XML, and project files that lack
\* modesel, plungeexpr, points, or the yexpr of their second point
InitialDisk ==
    [f \in Writable \cup ReadOnly |->
        IF f = FileOf(JunkPath) THEN [kind |-> "garbage", doc |-> NoDoc]
        ELSE IF f \in Writable THEN [kind |-> "absent", doc |-> NoDoc]
        ELSE IF f = FileOf(GarbagePath) THEN [kind |-> "garbage", doc |-> NoDoc]
        ELSE [kind |-> "xml",
              doc |-> IF f = FileOf(NoModePath)
                      THEN [ProjectDoc EXCEPT !.modesel = NoEl]
                      ELSE IF f = FileOf(NoPlungePath)
                      THEN [ProjectDoc EXCEPT !.plungeexpr = NoEl]
                      ELSE IF f = FileOf(NoPointsPath)
                      THEN [ProjectDoc EXCEPT !.points = NoEl]
                      ELSE IF f = FileOf(NoYPath)
                      THEN [ProjectDoc EXCEPT !.points =
                               El(<< [xexpr |-> El("1"), yexpr |-> El("2")],
                                     [xexpr |-> El("1"), yexpr |-> NoEl] >>)]
                      ELSE ProjectDoc]]

\* plist = PointsList(), init_config(), and the widgets as created
Init ==
    /\ points = <<>>
    /\ point_count = 0
    /\ row_selected = NONESELECTED
    /\ checkvar = [v \in VarIds |-> FALSE]
    /\ gridded = {}
    /\ last = [op |-> "init", args |-> <<>>, raised |-> FALSE, before |-> <<>>]
    /\ unit = "Unit: Inches"
    /\ mode = "Mode: Absolute"
    /\ depth = ""
    /\ plunge = ""
    /\ config = init_config
    /\ disk = InitialDisk
    /\ io = NoIo
    /\ located = FALSE
    /\ saved_as = NoPath
    /\ config_file = config_file_lines

\* The state after a call op(args) that returned, or raised and left, s0.
\* last records the call, whether it raised, and the texts held before it.
Becomes(s0, op, args) ==
    \E s \in {Collect(s0)} :
        /\ points' = s.points
        /\ point_count' = s.point_count
        /\ row_selected' = s.row_selected
        /\ checkvar' = s.checkvar
        /\ gridded' = s.gridded
        /\ last' = [op |-> op, args |-> args, raised |-> s.err,
                    before |-> Contents(Self)]
        /\ io' = NoIo
        /\ UNCHANGED <<filevars, located, saved_as>>

AppendPoint ==
    /\ point_count < MaxPoints
    /\ \E xy \in PointInputs :
           Becomes(append_point(Self, xy[1], xy[2]), "append_point", xy)

\* append_point called with empty texts, as Add Point calls it, while the
\* list has fewer than MaxRows rows
AppendBlankPoint ==
    /\ point_count < MaxRows
    /\ Becomes(append_point(Self, "", ""), "append_point", <<"", "">>)

\* delete_point called with an index of the list
DeletePoint ==
    \E ptnum \in 0 .. (point_count - 1) :
        Becomes(delete_point(Self, ptnum), "delete_point", <<ptnum>>)

\* delete_point called with any argument
DeletePointAny ==
    \E ptnum \in DeleteArgs :
        Becomes(delete_point(Self, ptnum), "delete_point", <<ptnum>>)

SelectRow ==
    \E row \in 0 .. (point_count - 1) :
        Becomes(select_row(Self, row), "select_row", <<row>>)

DeselectRow ==
    \E row \in 0 .. (point_count - 1) :
        Becomes(deselect_row(Self, row), "deselect_row", <<row>>)

MovePointForward ==
    \E ptnum \in 0 .. (point_count - 1) :
        Becomes(move_point_forward(Self, ptnum), "move_point_forward", <<ptnum>>)

MovePointBackward ==
    \E ptnum \in 0 .. (point_count - 1) :
        Becomes(move_point_backward(Self, ptnum), "move_point_backward", <<ptnum>>)

Clear == Becomes(clear(Self), "clear", <<>>)

\* The user clicks the check button shown for the point at list position i
ClickCheckbutton ==
    \E i \in 1 .. Len(points) :
        /\ points[i].cb.var \in gridded
        /\ Becomes(checkbutton_invoke(Self, points[i].cb), "checkbutton", <<i - 1>>)

AddPointPressed ==
    /\ point_count < MaxPoints
    /\ Becomes(addpoint_pressed(Self), "addpoint_pressed", <<>>)

\* Add Point, pressed while the list has fewer than MaxAdded rows
AddPointPressedEarly ==
    /\ point_count < MaxAdded
    /\ Becomes(addpoint_pressed(Self), "addpoint_pressed", <<>>)

DeletePointPressed == Becomes(deletepoint_pressed(Self), "deletepoint_pressed", <<>>)

\* delete_point called with the row selected, when that is a row of the list
DeleteSelectedRow ==
    /\ row_selected \in 0 .. (point_count - 1)
    /\ Becomes(delete_point(Self, row_selected), "delete_point", <<row_selected>>)

\* Delete Point pressed while the row selected is a row of the list
DeleteSelectedPressed ==
    /\ row_selected \in 0 .. (point_count - 1)
    /\ DeletePointPressed

UpButtonPressed == Becomes(up_button_pressed(Self), "up_button_pressed", <<>>)

DownButtonPressed == Becomes(down_button_pressed(Self), "down_button_pressed", <<>>)

\* The state after a File menu command that left the program as a.
\* loc and sav are the new values of located and saved_as.
Lands(a, op, loc, sav) ==
    \E s \in {Collect(a.plist)} :
        /\ points' = s.points
        /\ point_count' = s.point_count
        /\ row_selected' = s.row_selected
        /\ checkvar' = s.checkvar
        /\ gridded' = s.gridded
        /\ unit' = a.unit
        /\ mode' = a.mode
        /\ depth' = a.depth
        /\ plunge' = a.plunge
        /\ config' = a.config
        /\ config_file' = a.config_file
        /\ disk' = a.disk
        /\ io' = a.io
        /\ last' = [op |-> op, args |-> <<>>, raised |-> a.io.error # "",
                    before |-> Contents(Self)]
        /\ located' = loc
        /\ saved_as' = sav

\* The user picks an entry of the unit menu; the trace callback only prints
SelectUnit ==
    \E u \in Units : Lands([App EXCEPT !.unit = u], "inch_mm_select", located, saved_as)

\* The user picks an entry of the mode menu; the trace callback only prints
SelectMode ==
    \E m \in Modes : Lands([App EXCEPT !.mode = m], "abs_rel_select", located, saved_as)

\* The user replaces the text of the depth entry
TypeDepth ==
    \E text \in EntryTexts :
        Lands([App EXCEPT !.depth = text], "depth_entry", located, saved_as)

\* The user replaces the text of the plunge entry
TypePlunge ==
    \E text \in EntryTexts :
        Lands([App EXCEPT !.plunge = text], "plunge_entry", located, saved_as)

\* The user replaces the text of the x or the y entry of a row
TypePoint ==
    \E i \in 1 .. Len(points), text \in PointTexts :
        \/ Lands([App EXCEPT !.plist.points[i].x = text], "x_entry", located, saved_as)
        \/ Lands([App EXCEPT !.plist.points[i].y = text], "y_entry", located, saved_as)

\* File / New
NewPressed == Lands(new_pressed(App), "new_pressed", located, saved_as)

\* File / Write GCode
GenGcodePressed ==
    Lands(gen_gcode_pressed(App), "gen_gcode_pressed", located, saved_as)

\* File / Exit and the program started again: everything is as created,
\* the files are as they were left, and init_config() reads the file config
Restart ==
    /\ points' = <<>>
    /\ point_count' = 0
    /\ row_selected' = NONESELECTED
    /\ checkvar' = [v \in VarIds |-> FALSE]
    /\ gridded' = {}
    /\ unit' = "Unit: Inches"
    /\ mode' = "Mode: Absolute"
    /\ depth' = ""
    /\ plunge' = ""
    /\ config' = read_config(config_file)
    /\ last' = [op |-> "restart", args |-> <<>>, raised |-> FALSE,
                before |-> Contents(Self)]
    /\ io' = NoIo
    /\ located' = FALSE
    /\ saved_as' = NoPath
    /\ UNCHANGED <<disk, config_file>>

\* File / Save
SavePressed ==
    \E a \in {save_pressed(App)} :
        Lands(a, "save_pressed", located \/ a.io.wrote # {}, saved_as)

\* File / Save as..., the dialog answered with save_file
SaveAsPressed ==
    \E save_file \in SaveAnswers :
        \E a \in {save_as_pressed(App, save_file)} :
            Lands(a, "save_as_pressed", located \/ a.io.wrote # {},
                  IF a.io.wrote # {} THEN save_file ELSE NoPath)

\* File / Open, the two dialogs answered with yes and open_file
OpenPressed ==
    \E yes \in BOOLEAN, open_file \in OpenAnswers :
        /\ (~yes => open_file = NoPath)
        /\ \E a \in {open_pressed(App, yes, open_file)} :
               Lands(a, "open_pressed",
                     located \/ (yes /\ a.io.error = ""),
                     IF yes THEN NoPath ELSE saved_as)

\* File / Open, answered Yes and with the user's file that is no XML
OpenJunkPressed ==
    \E a \in {open_pressed(App, TRUE, JunkPath)} :
        Lands(a, "open_pressed", located \/ a.io.error = "", NoPath)

Next ==
    \/ AppendPoint
    \/ DeletePointAny
    \/ SelectRow
    \/ DeselectRow
    \/ MovePointForward
    \/ MovePointBackward
    \/ Clear
    \/ ClickCheckbutton
    \/ AddPointPressed
    \/ DeletePointPressed
    \/ UpButtonPressed
    \/ DownButtonPressed
    \/ SelectUnit
    \/ SelectMode
    \/ TypeDepth
    \/ TypePlunge
    \/ SavePressed
    \/ SaveAsPressed
    \/ OpenPressed
    \/ TypePoint
    \/ NewPressed
    \/ GenGcodePressed
    \/ Restart
    \/ OpenJunkPressed

Spec == Init /\ [][Next]_vars

\* The PointsList methods alone, called directly with indices of the list
NextMethods ==
    \/ AppendPoint
    \/ DeletePoint
    \/ SelectRow
    \/ DeselectRow
    \/ MovePointForward
    \/ MovePointBackward
    \/ Clear

SpecMethods == Init /\ [][NextMethods]_vars

\* The PointsList methods alone on a short list of empty rows, delete_point
\* called with any argument
NextMethodsAny ==
    \/ AppendBlankPoint
    \/ DeletePointAny
    \/ SelectRow
    \/ DeselectRow
    \/ MovePointForward
    \/ MovePointBackward
    \/ Clear

SpecMethodsAny == Init /\ [][NextMethodsAny]_vars

\* append_point and delete_point alone, delete_point with any argument
NextAppendDelete ==
    \/ AppendPoint
    \/ DeletePointAny

SpecAppendDelete == Init /\ [][NextAppendDelete]_vars

\* The program as its user drives it: the buttons and the check boxes
NextGui ==
    \/ ClickCheckbutton
    \/ AddPointPressed
    \/ DeletePointPressed
    \/ UpButtonPressed
    \/ DownButtonPressed

SpecGui == Init /\ [][NextGui]_vars

\* The buttons and the check boxes, Delete Point only with a row selected
NextGuiSelected ==
    \/ ClickCheckbutton
    \/ AddPointPressed
    \/ DeleteSelectedPressed
    \/ UpButtonPressed
    \/ DownButtonPressed

SpecGuiSelected == Init /\ [][NextGuiSelected]_vars

\* The methods that add, select, move and delete rows, delete_point only
\* with the row selected
NextSelection ==
    \/ AppendPoint
    \/ SelectRow
    \/ MovePointForward
    \/ MovePointBackward
    \/ DeleteSelectedRow

SpecSelection == Init /\ [][NextSelection]_vars

\* Save as and Open, with a project that is edited in between
NextOpen ==
    \/ AddPointPressedEarly
    \/ SelectMode
    \/ TypeDepth
    \/ SaveAsPressed
    \/ OpenPressed

SpecOpen == Init /\ [][NextOpen]_vars

\* Save and Save as, with a project that is edited in between
NextSave ==
    \/ AddPointPressed
    \/ SelectUnit
    \/ TypePlunge
    \/ SavePressed
    \/ SaveAsPressed

SpecSave == Init /\ [][NextSave]_vars

\* Open and Save as, with rows added in between
NextLoad ==
    \/ AddPointPressedEarly
    \/ SaveAsPressed
    \/ OpenPressed

SpecLoad == Init /\ [][NextLoad]_vars

\* New and Write GCode, the unit and mode menus, with a project that is
\* opened from a file and edited
NextProject ==
    \/ AddPointPressedEarly
    \/ TypePoint
    \/ TypeDepth
    \/ SelectUnit
    \/ SelectMode
    \/ OpenPressed
    \/ NewPressed
    \/ GenGcodePressed

SpecProject == Init /\ [][NextProject]_vars

\* Sessions one after the other, each opening and saving files
NextRestart ==
    \/ AddPointPressedEarly
    \/ SavePressed
    \/ SaveAsPressed
    \/ OpenPressed
    \/ Restart

SpecRestart == Init /\ [][NextRestart]_vars

\* Open, of the user's file that is no XML too, and Save
NextReopen ==
    \/ SavePressed
    \/ OpenPressed
    \/ OpenJunkPressed

SpecReopen == Init /\ [][NextReopen]_vars

\* Save as, with texts typed into every entry in between
NextCodec ==
    \/ AddPointPressedEarly
    \/ TypePoint
    \/ TypeDepth
    \/ TypePlunge
    \/ SaveAsPressed

SpecCodec == Init /\ [][NextCodec]_vars

----------------------------------------------------------------------------
(* What the claims are stated over *)

\* The stored point numbers, in list order
Numbers(s) == [i \in 1 .. Len(s.points) |-> s.points[i].num]

\* seq with the entries at positions p and q (from 1) exchanged
Exchanged(seq, p, q) ==
    [k \in 1 .. Len(seq) |->
        IF k = p THEN seq[q] ELSE IF k = q THEN seq[p] ELSE seq[k]]

\* The list positions (from 0) whose read_point reports SELECTED true
SelectedRows ==
    {i \in 0 .. (Len(points) - 1) : read_point(Self, i)[4]}

\* The last call was op with the single argument n
Called(op, n) == last.op = op /\ last.args = <<n>>

----------------------------------------------------------------------------
(* C1..C10 *)

\* C1: after every call in a sequence of append_point and delete_point calls
\* (delete_point with any argument) the stored point numbers are exactly
\* 0..point_count-1 and the point at list position i carries number i.
C1_NumbersAreListPositions ==
    /\ Len(points) = point_count
    /\ \A i \in 0 .. (Len(points) - 1) : read_point(Self, i)[1] = i

\* C2: after Add Point, Delete Point, Up or Down, pressed with whatever value
\* row_selected has, row_selected is NONESELECTED or an index of the list.
C2_SelectionValidAfterButton ==
    last.op \in {"addpoint_pressed", "deletepoint_pressed",
                 "up_button_pressed", "down_button_pressed"}
        => \/ row_selected = NONESELECTED
           \/ row_selected \in 0 .. (point_count - 1)

\* C3: after any sequence of PointsList operations at most one point has the
\* selected flag that read_point returns equal to true.
C3_AtMostOneSelected == Cardinality(SelectedRows) <= 1

\* C4: delete_point(ptnum) with ptnum outside 0..point_count-1 changes
\* neither the texts, nor the point numbers, nor point_count, nor
\* row_selected, also when a row is selected.
C4_DeleteOutOfRangeIsNoOp ==
    [][(last'.op = "delete_point" /\ last'.args[1] \notin 0 .. (point_count - 1))
          => /\ Contents(Self)' = Contents(Self)
             /\ Numbers(Self)' = Numbers(Self)
             /\ point_count' = point_count
             /\ row_selected' = row_selected]_vars

\* C5: deselect_row(row) clears the selection when row = row_selected and
\* leaves row_selected unchanged when row differs from it.
C5_DeselectOnlySelectedRow ==
    [][last'.op = "deselect_row"
          => row_selected' = IF last'.args[1] = row_selected
                             THEN NONESELECTED ELSE row_selected]_vars

\* C6: after clear() the list is empty, point_count is 0 and row_selected is
\* NONESELECTED, whatever was selected before.
C6_ClearResetsSelection ==
    last.op = "clear"
        => points = <<>> /\ point_count = 0 /\ row_selected = NONESELECTED

\* The step exchanged the texts of rows i and j, kept every other text,
\* every point number and point_count, and left row j selected
MovedTo(i, j) ==
    /\ Contents(Self)' = Exchanged(Contents(Self), i + 1, j + 1)
    /\ Numbers(Self)' = Numbers(Self)
    /\ point_count' = point_count
    /\ row_selected' = j
    /\ ~last'.raised

\* C7: for an index i with the neighbour it needs, move_point_backward(i)
\* exchanges the texts of rows i and i-1, move_point_forward(i) those of rows
\* i and i+1; every other row, all point numbers and point_count are
\* unchanged and row_selected is the row now holding the moved texts.
C7_MoveSwapsWithNeighbour ==
    [][/\ (last'.op = "move_point_backward"
              /\ last'.args[1] \in 1 .. (point_count - 1))
          => MovedTo(last'.args[1], last'.args[1] - 1)
       /\ (last'.op = "move_point_forward"
              /\ last'.args[1] \in 0 .. (point_count - 2))
          => MovedTo(last'.args[1], last'.args[1] + 1)]_vars

\* Row 2 of three rows was moved up: the texts of rows 1 and 2 are exchanged,
\* row 0 keeps its text, and row 1 is selected
C7_Witness ==
    /\ Called("move_point_backward", 2)
    /\ last.before = << <<"1", "2">>, <<"1", "2">>, <<"", "">> >>
    /\ Contents(Self) = << <<"1", "2">>, <<"", "">>, <<"1", "2">> >>
    /\ row_selected = 1

\* The step changed nothing of the list, its selection or its display and
\* raised nothing
NothingHappened ==
    /\ Contents(Self)' = Contents(Self)
    /\ Numbers(Self)' = Numbers(Self)
    /\ point_count' = point_count
    /\ row_selected' = row_selected
    /\ checkvar' = checkvar
    /\ gridded' = gridded
    /\ ~last'.raised

\* C8: move_point_backward(0) and move_point_forward(point_count-1) are
\* no-ops: order, texts and row_selected are unchanged.
C8_MoveAtBoundaryIsNoOp ==
    [][(\/ last'.op = "move_point_backward" /\ last'.args[1] = 0
        \/ last'.op = "move_point_forward" /\ last'.args[1] = point_count - 1)
          => NothingHappened]_vars

\* The first of three differing rows was moved up while row 1 was selected
C8_Witness ==
    /\ Called("move_point_backward", 0)
    /\ Contents(Self) = << <<"1", "2">>, <<"", "">>, <<"1", "2">> >>
    /\ last.before = Contents(Self)
    /\ row_selected = 1

\* The list after op(Self, n) holds the texts held before the last call and
\* has row back selected
Restores(s, back) ==
    /\ ~s.err
    /\ Contents(s) = last.before
    /\ s.row_selected = back

\* C9: when a move up of row i has moved its texts, a move down of row i-1
\* restores the order of all texts and ends with row i selected; likewise a
\* move down of row i followed by a move up of row i+1.
C9_MoveThereAndBack ==
    /\ (last.op = "move_point_backward" /\ last.args[1] >= 1 /\ ~last.raised)
          => Restores(move_point_forward(Self, last.args[1] - 1), last.args[1])
    /\ (last.op = "move_point_forward" /\ last.args[1] <= point_count - 2
          /\ ~last.raised)
          => Restores(move_point_backward(Self, last.args[1] + 1), last.args[1])

\* Row 1 of three rows has just been moved up, which changed the order, and
\* moving row 0 down gives the order back
C9_Witness ==
    /\ Called("move_point_backward", 1)
    /\ Len(points) = 3
    /\ last.before # Contents(Self)
    /\ Contents(move_point_forward(Self, 0)) = last.before

\* C10: append_point(x, y) adds one point at the end holding (x, y) with
\* number the old point_count, leaves the existing points and their order
\* unchanged, and sets row_selected to the new point's index.
C10_AppendAddsLastAndSelects ==
    [][last'.op = "append_point"
          => /\ ~last'.raised
             /\ Len(points') = Len(points) + 1
             /\ point_count' = point_count + 1
             /\ read_point(Self', point_count)[1] = point_count
             /\ read_point(Self', point_count)[2] = last'.args[1]
             /\ read_point(Self', point_count)[3] = last'.args[2]
             /\ \A i \in 0 .. (Len(points) - 1) :
                    /\ read_point(Self', i)[1] = read_point(Self, i)[1]
                    /\ read_point(Self', i)[2] = read_point(Self, i)[2]
                    /\ read_point(Self', i)[3] = read_point(Self, i)[3]
             /\ row_selected' = point_count]_vars

\* ("1", "2") was appended as the third point, after two others
C10_Witness ==
    /\ last.op = "append_point"
    /\ last.args = <<"1", "2">>
    /\ last.before = << <<"", "">>, <<"1", "2">> >>
    /\ Contents(Self) = << <<"", "">>, <<"1", "2">>, <<"1", "2">> >>
    /\ read_point(Self, 2)[1] = 2
    /\ row_selected = 2

----------------------------------------------------------------------------
(* C11..C14 *)

\* The step called delete_point(n): directly, or through Delete Point
DeleteCalled(n) ==
    \/ last'.op = "delete_point" /\ last'.args = <<n>>
    \/ last'.op = "deletepoint_pressed" /\ row_selected = n

\* C11: when a row is selected and n is an index of the list, delete_point(n)
\* removes exactly the texts of row n, keeps the texts of the other points in
\* their order, lowers the number of every following point by 1 and lowers
\* point_count by 1.
C11_DeleteRemovesExactlyRow ==
    [][\A n \in 0 .. (point_count - 1) :
          (row_selected # NONESELECTED /\ DeleteCalled(n))
             => /\ ~last'.raised
                /\ Contents(Self)' = DelAt(Contents(Self), n + 1)
                /\ Numbers(Self)' =
                      [i \in 1 .. (Len(points) - 1) |->
                          IF i <= n THEN Numbers(Self)[i]
                                    ELSE Numbers(Self)[i + 1] - 1]
                /\ point_count' = point_count - 1]_vars

\* C12: delete_point(ptnum) is a no-op when row_selected is NONESELECTED, for
\* every ptnum: the points, their numbers, point_count and row_selected are
\* unchanged.
C12_DeleteWithoutSelectionIsNoOp ==
    [][(row_selected = NONESELECTED /\ last'.op = "delete_point")
          => /\ ~last'.raised
             /\ points' = points
             /\ point_count' = point_count
             /\ row_selected' = row_selected]_vars

\* delete_point(0) was called on two points numbered 0 and 1 of which none
\* was selected (a selected row would have cost a point), and both remain
C12_Witness ==
    /\ Called("delete_point", 0)
    /\ Len(last.before) = 2
    /\ Contents(Self) = last.before
    /\ Numbers(Self) = <<0, 1>>
    /\ row_selected = NONESELECTED

\* C13: after any call of delete_point, direct or through Delete Point,
\* row_selected is NONESELECTED.
C13_DeleteClearsSelection ==
    last.op \in {"delete_point", "deletepoint_pressed"}
        => row_selected = NONESELECTED

\* C14: select_row(row) for an index row of the list, called directly or by
\* the click that checks a box, sets row_selected to row and leaves the check
\* button of that row checked and those of all other rows unchecked.
C14_SelectChecksExactlyRow ==
    (/\ \/ last.op = "select_row"
        \/ last.op = "checkbutton" /\ row_selected # NONESELECTED
     /\ row_selected \in 0 .. (point_count - 1))
        => /\ last.op = "select_row" => row_selected = last.args[1]
           /\ \A i \in 0 .. (Len(points) - 1) :
                  checkvar[points[i + 1].cb.var] = (i = row_selected)

----------------------------------------------------------------------------
(* C15..C20 *)

\* The step left the menus, the two entries and the texts of the points
\* as they were
SameProject ==
    /\ unit' = unit
    /\ mode' = mode
    /\ depth' = depth
    /\ plunge' = plunge
    /\ Contents(Self)' = Contents(Self)

\* C15: opening the file the step before has saved reproduces the unit mode,
\* the coordinate mode, the depth and plunge texts and the x and y texts of
\* the points in order; a text that was empty is empty afterwards.
C15_SaveThenOpenReproduces ==
    [][(/\ last.op = "save_as_pressed"
        /\ io.wrote # {}
        /\ last'.op = "open_pressed"
        /\ io'.answer # NoPath
        /\ io.wrote = {FileOf(io'.answer)})
          => /\ io'.error = ""
             /\ SameProject]_vars

\* C16: when Open fails (the file is not there, is no XML, or lacks an
\* element), the unit mode, the coordinate mode, the depth and plunge texts,
\* the point list and the selection are as before the Open.
C16_FailedOpenChangesNothing ==
    [][(last'.op = "open_pressed" /\ io'.error # "")
          => /\ SameProject
             /\ Numbers(Self)' = Numbers(Self)
             /\ point_count' = point_count
             /\ row_selected' = row_selected]_vars

\* C17: Save, when nothing was opened or saved since start-up, asks the user
\* for a destination as Save As does.
C17_FirstSaveAsks ==
    [][(last'.op = "save_pressed" /\ ~located)
          => "asksaveasfilename" \in io'.asked]_vars

\* The texts of the model that check_if_num reports as no number: "abc"
\* (KeyError from ne.evaluate), and "" and " ", which strip() makes "" and
\* ne.evaluate cannot compile (SyntaxError)
NotANumber == {"", " ", "abc"}

\* C18: no file is written by Save or Save As while the depth, the plunge
\* rate or an x or y field holds a text that does not evaluate to a number.
C18_InvalidTextIsNotSaved ==
    (/\ last.op \in {"save_pressed", "save_as_pressed"}
     /\ \/ depth \in NotANumber
        \/ plunge \in NotANumber
        \/ \E i \in 0 .. (Len(points) - 1) :
               \/ read_point(Self, i)[2] \in NotANumber
               \/ read_point(Self, i)[3] \in NotANumber)
        => io.wrote = {}

\* C19: after a Save As that wrote path p, config names p, and a Save with no
\* Open or Save As in between writes the file p.
C19_SaveReusesSavedPath ==
    /\ (last.op = "save_as_pressed" /\ io.wrote # {})
          => /\ saved_as = io.answer
             /\ io.wrote = {FileOf(saved_as)}
             /\ FileOf(config.default_data_path \o <<"/">>
                          \o config.default_data_file) = FileOf(saved_as)
    /\ (last.op = "save_pressed" /\ saved_as # NoPath)
          => /\ io.error = ""
             /\ io.wrote = {FileOf(saved_as)}

\* Save has written work.xml, where an earlier Save As had put the project,
\* after the default file had been in use and rows were added in between
C19_Witness ==
    /\ last.op = "save_pressed"
    /\ saved_as = WorkPath
    /\ io.wrote = {FileOf(WorkPath)}
    /\ disk[FileOf(DefaultPath)].kind = "xml"
    /\ Len(disk[FileOf(DefaultPath)].doc.points[1]) < point_count
    /\ disk[FileOf(WorkPath)].doc = XmlTree(App)

\* C20: a save that fails with PermissionError leaves the unit mode, the
\* coordinate mode, the depth and plunge texts, the points, the selection
\* and the remembered location (config) as they were.
C20_RefusedSaveChangesNothing ==
    [][(last'.op \in {"save_pressed", "save_as_pressed"}
          /\ io'.error = "PermissionError")
          => /\ SameProject
             /\ points' = points
             /\ point_count' = point_count
             /\ row_selected' = row_selected
             /\ config' = config
             /\ disk' = disk]_vars

\* A Save As to a read-only file was refused after the project had been
\* saved as work.xml, which config still names
C20_Witness ==
    /\ last.op = "save_as_pressed"
    /\ io.answer = GarbagePath
    /\ io.error = "PermissionError"
    /\ io.wrote = {}
    /\ config.default_data_path = user_home_path
    /\ config.default_data_file = <<"work.xml">>
    /\ point_count = 2

----------------------------------------------------------------------------
(* C21..C30 *)

\* The element e of a written document holds text, or a single space when
\* text is empty
Holds(e, text) ==
    /\ e # NoEl
    /\ e[1] # ""
    /\ (text = "" => e[1] = " ")
    /\ (text # "" => e[1] = text)

\* C21: in every document a save has written, the depth, the plunge rate and
\* the x and y of every point are written as one space when their text is
\* empty and as their text otherwise; no such element is written empty.
C21_EmptyTextWrittenAsSpace ==
    \A f \in io.wrote :
        /\ disk[f].kind = "xml"
        /\ Holds(disk[f].doc.depthexpr, depth)
        /\ Holds(disk[f].doc.plungeexpr, plunge)
        /\ disk[f].doc.points # NoEl
        /\ Len(disk[f].doc.points[1]) = Len(points)
        /\ \A i \in 1 .. Len(points) :
               /\ Holds(disk[f].doc.points[1][i].xexpr, points[i].x)
               /\ Holds(disk[f].doc.points[1][i].yexpr, points[i].y)

\* A document was written while the depth and the x of the point were empty
\* and the plunge rate and the y of the point were not
C21_Witness ==
    /\ io.wrote = {FileOf(WorkPath)}
    /\ depth = ""
    /\ plunge = "abc"
    /\ Len(points) = 1
    /\ points[1].x = ""
    /\ points[1].y = "1"
    /\ disk[FileOf(WorkPath)].doc.depthexpr = El(" ")
    /\ disk[FileOf(WorkPath)].doc.points[1][1].yexpr = El("1")

\* C22: after an Open that succeeded the list holds exactly the points of
\* the file, in document order and numbered 0..n-1, and the rows on the grid
\* are theirs: no point from before the Open remains.
C22_OpenReplacesPoints ==
    (/\ last.op = "open_pressed"
     /\ "askopenfilename" \in io.asked
     /\ io.error = "")
        => /\ disk[FileOf(io.answer)].doc.points # NoEl
           /\ Len(points) = Len(disk[FileOf(io.answer)].doc.points[1])
           /\ point_count = Len(points)
           /\ \A i \in 1 .. Len(points) :
                  /\ points[i].num = i - 1
                  /\ <<points[i].x>> = disk[FileOf(io.answer)].doc.points[1][i].xexpr
                  /\ <<points[i].y>> = disk[FileOf(io.answer)].doc.points[1][i].yexpr
           /\ gridded = {points[i].cb.var : i \in 1 .. Len(points)}

\* The project file with two points was opened over a list of one point
C22_Witness ==
    /\ last.op = "open_pressed"
    /\ io.answer = ProjectPath
    /\ io.error = ""
    /\ Len(last.before) = 1
    /\ Contents(Self) = << <<"1", "2">>, <<"2", "1">> >>

\* C23: after File / New the point list is empty, no row is on the grid and
\* nothing is selected.
C23_NewErasesEverything ==
    last.op = "new_pressed"
        => /\ points = <<>>
           /\ point_count = 0
           /\ gridded = {}
           /\ row_selected = NONESELECTED

\* The texts that evaluate to a number, and the number in tenths
NumberTexts == {"-1", "0", "1", "2", "3", "25.4", "50.8"}

evaluate(text) ==
    CASE text = "-1" -> -10
      [] text = "0" -> 0
      [] text = "1" -> 10
      [] text = "2" -> 20
      [] text = "3" -> 30
      [] text = "25.4" -> 254
      [] text = "50.8" -> 508

\* The depth, the plunge rate and the x and y of every point evaluate
AllEvaluate ==
    /\ depth \in NumberTexts
    /\ plunge \in NumberTexts
    /\ \A i \in 1 .. Len(points) :
           points[i].x \in NumberTexts /\ points[i].y \in NumberTexts

\* C24: Write GCode emits one drill cycle per point, in list order; in
\* Absolute mode the cycle of a point is at the point's x and y.
C24_OneCyclePerPointInOrder ==
    (last.op = "gen_gcode_pressed" /\ AllEvaluate)
        => /\ Len(io.gcode) = Len(points)
           /\ mode = "Mode: Absolute"
                 => \A i \in 1 .. Len(points) :
                        io.gcode[i] = <<evaluate(points[i].x), evaluate(points[i].y)>>

\* C25: when the depth, the plunge rate or an x or y of a point does not
\* evaluate, Write GCode ends with an error and emits nothing.
C25_GcodeAllOrNothing ==
    (/\ last.op = "gen_gcode_pressed"
     /\ \/ depth \in NotANumber
        \/ plunge \in NotANumber
        \/ \E i \in 1 .. Len(points) :
               points[i].x \in NotANumber \/ points[i].y \in NotANumber)
        => /\ io.error # ""
           /\ io.gcode = <<>>

\* Every x and y of the list evaluates
PointsEvaluate ==
    \A i \in 1 .. Len(points) :
        points[i].x \in NumberTexts /\ points[i].y \in NumberTexts

\* C26: the mode menu changed from Absolute to Relative leaves point 0 and
\* replaces every later point by its displacement from the point before it;
\* changed from Relative to Absolute it leaves point 0 and makes every later
\* point the sum of the new point before it and itself.
C26_ModeChangeConverts ==
    [][(/\ last'.op = "abs_rel_select"
        /\ mode # mode'
        /\ Len(points) >= 1
        /\ PointsEvaluate)
          => /\ Len(points') = Len(points)
             /\ PointsEvaluate'
             /\ points'[1].x = points[1].x /\ points'[1].y = points[1].y
             /\ \A i \in 2 .. Len(points) :
                    IF mode' = "Mode: Relative"
                    THEN /\ evaluate(points'[i].x)
                              = evaluate(points[i].x) - evaluate(points[i - 1].x)
                         /\ evaluate(points'[i].y)
                              = evaluate(points[i].y) - evaluate(points[i - 1].y)
                    ELSE /\ evaluate(points'[i].x)
                              = evaluate(points'[i - 1].x) + evaluate(points[i].x)
                         /\ evaluate(points'[i].y)
                              = evaluate(points'[i - 1].y) + evaluate(points[i].y)]_vars

\* new is old times 25.4 when the unit became millimeters, old divided by
\* 25.4 when it became inches (texts in tenths)
Converted(old, new) ==
    /\ new \in NumberTexts
    /\ IF unit' = "Unit: Millimeters"
       THEN evaluate(new) * 10 = evaluate(old) * 254
       ELSE evaluate(new) * 254 = evaluate(old) * 10

\* C27: the unit menu changed while points exist converts the x and y of
\* every point, the depth and the plunge rate; the unit chosen again leaves
\* them as they are.
C27_UnitChangeConverts ==
    [][(last'.op = "inch_mm_select" /\ Len(points) >= 1 /\ AllEvaluate)
          => IF unit' = unit
             THEN depth' = depth /\ plunge' = plunge
                     /\ Contents(Self)' = Contents(Self)
             ELSE /\ Converted(depth, depth')
                  /\ Converted(plunge, plunge')
                  /\ Len(points') = Len(points)
                  /\ \A i \in 1 .. Len(points) :
                         /\ Converted(points[i].x, points'[i].x)
                         /\ Converted(points[i].y, points'[i].y)]_vars

\* C28: the file config holds the data directory, the data file name, the
\* G-code directory and the G-code file name of the config dictionary, so
\* that the next start-up reads the four values the dictionary had; the
\* G-code file name survives a save followed by a restart.
C28_ConfigSurvivesRestart ==
    [][last'.op = "restart" => config' = config]_vars

\* C29: Up or Down pressed while no row is selected changes neither the
\* order or the texts of the points nor row_selected, and raises no error.
C29_MoveWithoutSelectionIsNoOp ==
    [][(/\ last'.op \in {"up_button_pressed", "down_button_pressed"}
        /\ row_selected = NONESELECTED)
          => /\ Contents(Self)' = Contents(Self)
             /\ row_selected' = NONESELECTED
             /\ ~last'.raised]_vars

\* C30: the check button held by the point at row r is the one whose
\* command reports index r, for every row of the list, and a click on the
\* box of row r leaves row r selected or nothing selected.
C30_CheckbuttonReportsItsRow ==
    /\ Len(points) = point_count
    /\ \A i \in 1 .. Len(points) : points[i].cb.line = i - 1
    /\ last.op = "checkbutton"
          => row_selected \in {last.args[1], NONESELECTED}

\* The first of three rows was deleted and the box of the row that is now
\* the first was clicked, which selected row 0
C30_Witness ==
    /\ last.op = "checkbutton"
    /\ last.args = <<0>>
    /\ row_selected = 0
    /\ point_count = 2
    /\ points[1].sel # points[1].cb.var

----------------------------------------------------------------------------
(* C31..C33 *)

\* C31: after any sequence of append_point, select_row, move_point_forward,
\* move_point_backward and delete_point calls, delete_point called with the
\* row selected, the selected flag that read_point(i) returns is true
\* exactly when i is row_selected, for every index i of the list.
C31_FlagIsRowSelected ==
    \A i \in 0 .. (Len(points) - 1) :
        read_point(Self, i)[4] <=> (i = row_selected)

\* The last command was an Open that failed as C32 says: the file was no
\* XML, or no file was chosen
OpenFailed ==
    /\ last.op = "open_pressed"
    /\ (io.error = "ParseError" \/ io.answer \in {NoPath, EmptyTuple})

\* C32: an Open that fails (the file is no XML, or no file was chosen) leaves
\* default_data_path and default_data_file of config as they were, and a
\* Save right after it does not write the file that failed to open.
C32_FailedOpenKeepsSaveLocation ==
    [][/\ OpenFailed'
          => /\ config'.default_data_path = config.default_data_path
             /\ config'.default_data_file = config.default_data_file
       /\ (OpenFailed /\ last'.op = "save_pressed")
          => FileOf(io.answer) \notin io'.wrote]_vars

\* C33: after every call of append_point, delete_point (with any argument),
\* move_point_forward, move_point_backward, select_row, deselect_row and
\* clear, in any sequence, point_count is the length of the points list.
C33_PointCountIsLength == point_count = Len(points)

\* delete_point was called with a number that is no index of the list while
\* a row was selected: its loop renumbered both rows and removed none
C33_Witness ==
    /\ last.op = "delete_point"
    /\ last.args[1] \notin 0 .. (Len(last.before) - 1)
    /\ Numbers(Self) = <<-1, 0>>
    /\ point_count = 2
    /\ Len(points) = 2

====
